---- MODULE Spec2Model ----
(***************************************************************************)
(* Windowed TFTP transfer worker (src/src/worker.rs): Worker::send_file,   *)
(* Worker::receive_file and send_window, driving the Window block buffer   *)
(* over a datagram socket.                                                 *)
(*                                                                         *)
(* A Worker is consumed by exactly one of send() or receive().  The model  *)
(* runs one send_file against an arbitrary peer (role "send"), one         *)
(* receive_file against an arbitrary peer (role "receive"), or one         *)
(* send_file and one receive_file of two Workers against each other over a *)
(* network (role "both").                                                  *)
(*                                                                         *)
(* The source file is file_len bytes long and its i-th byte has the value  *)
(* i, so that every byte of the file is distinguishable.                   *)
(***************************************************************************)
EXTENDS Integers, Sequences, FiniteSets, TLC

\* ------------------------------------------------------------- bounds
MaxWindowSize == 2      \* windowsize is drawn from 1..MaxWindowSize
MaxBlkSize == 2         \* blk_size is drawn from 1..MaxBlkSize
MaxFileLen == 4         \* the source file holds 0..MaxFileLen bytes
MaxPeerBlocks == 3      \* an arbitrary peer offers at most this many acceptable Data blocks
MaxPeerAcks == 3        \* an arbitrary peer sends at most this many in-window Acks
MaxAhead == 1           \* an arbitrary peer's block numbers range to this far past the window
MaxSendLog == 3         \* the count of window transmissions saturates here
MaxFaults == 2          \* packets the network may lose, duplicate or swap in one run

\* ------------------------------------------------------------- program constants
MAX_RETRIES == 6
Modulus == 65536        \* block numbers are u16

\* ------------------------------------------------------------- variables
VARIABLES
    role,               \* "send", "receive" or "both"
    windowsize,         \* Worker.windowsize
    blk_size,           \* Worker.blk_size
    file_len,           \* length of the source file in bytes
    \* send_file
    s_pc,               \* "fill", "time", "recv", "done"
    s_block_number,     \* block_number
    s_window,           \* window.elements
    s_fpos,             \* read offset of the source file
    s_filled,           \* filled
    s_retry_cnt,        \* retry_cnt
    s_expired,          \* time.elapsed() >= self.timeout
    s_result,           \* the Result send_file returned
    \* receive_file
    r_pc,               \* "recv", "empty", "ack", "done"
    r_block_number,     \* block_number
    r_window,           \* window.elements
    r_size,             \* size
    r_retry_cnt,        \* retry_cnt
    r_result,           \* the Result receive_file returned
    r_file,             \* the destination file (as runs, see WriteByte)
    \* Worker::receive, the thread around receive_file
    r_exists,           \* the destination file exists in the file system
    r_cleanup,          \* fs::remove_file: "none" (not called), "removed" or "failed"
    r_printed,          \* what the thread has printed, in order
    \* the network between two Workers (role "both")
    to_receiver,        \* packets in flight from send_file to receive_file
    to_sender,          \* packets in flight from receive_file to send_file
    net,                \* what the network has done: [lost, dup, swap]
    \* observation
    s_last,             \* what the latest socket.recv() of send_file returned
    s_wire,             \* the packets the latest send_window put on the socket
    s_log,              \* send_file: entries read, window transmissions, accepted
                        \* Acks, entries removed, failed polls in a row, failed
                        \* polls since the last accepted Ack, whether the latest
                        \* transmission came with one retry left
    r_last,             \* what the latest socket.recv_with_size() of receive_file returned
    r_wire,             \* the latest packet receive_file put on the socket
    r_log               \* receive_file: accepted Data packets, entries written,
                        \* windows written, Acks sent, failed
                        \* polls in a row, failed polls since the last accepted
                        \* Data packet, parity of the polls, payloads of the
                        \* packets that were next in sequence (as runs)

cfgvars == <<role, windowsize, blk_size, file_len>>
svars == <<s_pc, s_block_number, s_window, s_fpos, s_filled, s_retry_cnt, s_expired,
           s_result, s_last, s_wire, s_log>>
rvars == <<r_pc, r_block_number, r_window, r_size, r_retry_cnt, r_result, r_file,
           r_last, r_wire, r_log>>
netvars == <<to_receiver, to_sender, net>>
wvars == <<r_exists, r_cleanup, r_printed>>
vars == <<cfgvars, svars, rvars, netvars, wvars>>

Min(a, b) == IF a < b THEN a ELSE b

\* ------------------------------------------------------------- packets
Data(block_num, data) ==
    [kind |-> "Data", block_num |-> block_num, data |-> data, code |-> 0, msg |-> ""]
Ack(block_num) ==
    [kind |-> "Ack", block_num |-> block_num, data |-> <<>>, code |-> 0, msg |-> ""]
Error(code, msg) ==
    [kind |-> "Error", block_num |-> 0, data |-> <<>>, code |-> code, msg |-> msg]
\* recv() returned Err (nothing arrived in time, or a receive error)
NoPacket ==
    [kind |-> "None", block_num |-> 0, data |-> <<>>, code |-> 0, msg |-> ""]

\* ------------------------------------------------------------- results
Running == [tag |-> "running", code |-> 0, msg |-> ""]
Ok == [tag |-> "ok", code |-> 0, msg |-> ""]
\* "Received error code {code}: {msg}"
ErrPeer(code, msg) == [tag |-> "peer", code |-> code, msg |-> msg]
\* "Transfer timed out after {MAX_RETRIES} tries"
ErrTimeout == [tag |-> "timeout", code |-> MAX_RETRIES, msg |-> ""]
\* an error of Window::remove / Window::add propagated by `?`
ErrWindow == [tag |-> "window", code |-> 0, msg |-> ""]
\* an error of file or socket I/O propagated by `?`
ErrIo == [tag |-> "io", code |-> 0, msg |-> ""]

\* ------------------------------------------------------------- u16 arithmetic
wrapping_add_u8(a, b) == (a + b) % 256
wrapping_add_keep(a, b) == a % Modulus
wrapping_add(a, b) == (a + b) % Modulus
wrapping_sub(a, b) == (a - b + Modulus) % Modulus

\* ------------------------------------------------------------- Window
\* File::read of up to n bytes at offset pos of the source file
ReadChunk(pos, n) == [i \in 1..Min(n, file_len - pos) |-> pos + i]

\* Window::fill: tops the buffer up to windowsize entries; a short read is
\* pushed and ends the call with false, a full buffer ends it with true.
RECURSIVE Fill(_, _)
Fill(elements, pos) ==
    IF Len(elements) >= windowsize
    THEN [elements |-> elements, pos |-> pos, filled |-> TRUE]
    ELSE LET chunk == ReadChunk(pos, blk_size)
         IN  IF Len(chunk) # blk_size
             THEN [elements |-> Append(elements, chunk),
                   pos |-> pos + Len(chunk), filled |-> FALSE]
             ELSE Fill(Append(elements, chunk), pos + blk_size)

\* Window::remove(amount): Err when amount exceeds the held entries
RemoveFails(elements, amount) == amount > Len(elements)
Remove(elements, amount) == SubSeq(elements, amount + 1, Len(elements))

\* Window::add(data): Err when the buffer is full
AddFails(elements) == Len(elements) >= windowsize
\* Window::is_full, Window::is_empty
is_full(elements) == Len(elements) >= windowsize
is_empty(elements) == Len(elements) = 0

\* The destination file is kept as the sequence of its maximal runs <<lo, hi>>
\* of consecutive byte values lo, lo+1, ..., hi: a lossless encoding of the
\* byte sequence that stays small for a long file.
WriteByte(runs, b) ==
    IF runs # <<>> /\ runs[Len(runs)][2] + 1 = b
    THEN [runs EXCEPT ![Len(runs)] = <<@[1], b>>]
    ELSE Append(runs, <<b, b>>)

RECURSIVE WriteBytes(_, _)
WriteBytes(runs, bytes) ==
    IF bytes = <<>> THEN runs
    ELSE WriteBytes(WriteByte(runs, Head(bytes)), Tail(bytes))

\* the source file in the same encoding
SourceFile == IF file_len = 0 THEN <<>> ELSE <<<<1, file_len>>>>

\* Window::empty: the held entries written to the file in order
RECURSIVE WriteElements(_, _)
WriteElements(runs, elements) ==
    IF elements = <<>> THEN runs
    ELSE WriteElements(WriteBytes(runs, Head(elements)), Tail(elements))

\* ------------------------------------------------------------- send_window
\* The Data packets send_window puts on the socket for `elements`, the first
\* numbered block_num: every frame twice, numbers ascending with wraparound.
RECURSIVE send_window_down(_, _)
send_window_down(elements, block_num) ==
    IF elements = <<>> THEN <<>>
    ELSE send_window_down(Tail(elements), wrapping_add(block_num, 1))
         \o <<Data(block_num, Head(elements)), Data(block_num, Head(elements))>>

RECURSIVE send_window(_, _)
send_window(elements, block_num) ==
    IF elements = <<>> THEN <<>>
    ELSE <<Data(block_num, Head(elements)), Data(block_num, Head(elements))>>
         \o send_window(Tail(elements), wrapping_add(block_num, 1))

\* ------------------------------------------------------------- send_file
AckInWindow_any(diff) == TRUE
\* line 151: diff <= self.windowsize
AckInWindow(diff) == diff <= windowsize

RetriesExhausted_late(cnt) == cnt = MAX_RETRIES + 1
\* lines 162, 212: retry_cnt == MAX_RETRIES
RetriesExhausted(cnt) == cnt = MAX_RETRIES

SendDone_early(filled, elements) == ~filled
\* line 171: !filled && window.is_empty()
SendDone(filled, elements) == ~filled /\ is_empty(elements)

Bump(n) == Min(n + 1, MaxSendLog)

\* line 137: window.fill()?, then lines 139-141
SendFill ==
    /\ s_pc = "fill"
    /\ LET f == Fill(s_window, s_fpos)
       IN  /\ s_window' = f.elements
           /\ s_fpos' = f.pos
           /\ s_filled' = f.filled
           /\ s_log' = [s_log EXCEPT !.read = @ + Len(f.elements) - Len(s_window)]
    /\ s_retry_cnt' = 0
    /\ s_expired' = TRUE
    /\ s_pc' = "time"
    /\ UNCHANGED <<s_block_number, s_result, s_last, s_wire>>

\* line 137: window.fill() fails with an I/O error
SendFillFail ==
    /\ s_pc = "fill"
    /\ s_pc' = "done"
    /\ s_result' = ErrIo
    /\ UNCHANGED <<s_block_number, s_window, s_fpos, s_filled, s_retry_cnt, s_expired,
                   s_last, s_wire, s_log>>

TimeoutElapsed_any == TRUE
\* line 143: time.elapsed() >= self.timeout
TimeoutElapsed == s_expired

\* lines 143-146: the timeout has elapsed, the window is (re)transmitted
SendWindow ==
    /\ s_pc = "time"
    /\ TimeoutElapsed
    /\ s_wire' = send_window(s_window, s_block_number)
    /\ s_expired' = FALSE
    /\ s_log' = [s_log EXCEPT !.windows = Bump(@), !.late = (s_retry_cnt = MAX_RETRIES - 1)]
    /\ s_pc' = "recv"
    /\ UNCHANGED <<s_block_number, s_window, s_fpos, s_filled, s_retry_cnt, s_result,
                   s_last>>

\* line 144: socket.send fails inside send_window after k packets
SendWindowFail(k) ==
    /\ s_pc = "time"
    /\ TimeoutElapsed
    /\ s_wire' = SubSeq(send_window(s_window, s_block_number), 1, k)
    /\ s_pc' = "done"
    /\ s_result' = ErrIo
    /\ UNCHANGED <<s_block_number, s_window, s_fpos, s_filled, s_retry_cnt, s_expired,
                   s_last, s_log>>

\* line 143: the timeout has not elapsed
SendNoResend ==
    /\ s_pc = "time"
    /\ ~TimeoutElapsed
    /\ s_pc' = "recv"
    /\ UNCHANGED <<s_block_number, s_window, s_fpos, s_filled, s_retry_cnt, s_expired,
                   s_result, s_last, s_wire, s_log>>

\* lines 143, 145, 148: the timeout elapses after the latest transmission,
\* while recv() waits for a packet or before the next test of line 143
TimePasses ==
    /\ s_pc \in {"recv", "time"}
    /\ ~s_expired
    /\ s_expired' = TRUE
    /\ UNCHANGED <<s_pc, s_block_number, s_window, s_fpos, s_filled, s_retry_cnt, s_result,
                   s_last, s_wire, s_log>>

\* lines 149-156, 171-173: recv() returned Ack(received_block_number)
SendRecvAck(received_block_number) ==
    /\ s_pc = "recv"
    /\ s_last' = Ack(received_block_number)
    /\ LET diff == wrapping_sub(received_block_number, s_block_number)
       IN  IF AckInWindow(diff)
           THEN /\ s_block_number' = wrapping_add(received_block_number, 1)
                /\ IF RemoveFails(s_window, diff + 1)
                   THEN /\ s_pc' = "done"
                        /\ s_result' = ErrWindow
                        /\ s_log' = [s_log EXCEPT !.fails = 0]
                        /\ UNCHANGED s_window
                   ELSE /\ s_window' = Remove(s_window, diff + 1)
                        /\ s_log' = [s_log EXCEPT !.acked = @ + 1,
                                                  !.removed = @ + diff + 1,
                                                  !.fails = 0, !.idle = 0]
                        /\ IF SendDone(s_filled, s_window')
                           THEN s_pc' = "done" /\ s_result' = Ok
                           ELSE s_pc' = "fill" /\ UNCHANGED s_result
           ELSE /\ s_pc' = "time"
                /\ s_log' = [s_log EXCEPT !.fails = 0]
                /\ UNCHANGED <<s_block_number, s_window, s_result>>
    /\ UNCHANGED <<s_fpos, s_filled, s_retry_cnt, s_expired, s_wire>>

\* lines 157-159: recv() returned Error { code, msg }
SendRecvError(code, msg) ==
    /\ s_pc = "recv"
    /\ s_last' = Error(code, msg)
    /\ s_pc' = "done"
    /\ s_result' = ErrPeer(code, msg)
    /\ s_log' = [s_log EXCEPT !.fails = 0]
    /\ UNCHANGED <<s_block_number, s_window, s_fpos, s_filled, s_retry_cnt, s_expired,
                   s_wire>>

\* lines 160-167: recv() returned Err or a packet of another kind
SendRecvOther(pkt) ==
    /\ s_pc = "recv"
    /\ s_last' = pkt
    /\ s_retry_cnt' = s_retry_cnt + 1
    /\ IF RetriesExhausted(s_retry_cnt')
       THEN s_pc' = "done" /\ s_result' = ErrTimeout
       ELSE s_pc' = "time" /\ UNCHANGED s_result
    /\ s_log' = [s_log EXCEPT !.fails = @ + 1, !.idle = @ + 1]
    /\ UNCHANGED <<s_block_number, s_window, s_fpos, s_filled, s_expired, s_wire>>

\* ------------------------------------------------------------- receive_file
IsNext_ahead(received_block_number, block_number) == received_block_number > block_number
IsNext_dup(received_block_number, block_number) ==
    received_block_number \in {block_number, wrapping_add(block_number, 1)}
\* line 193: received_block_number == block_number.wrapping_add(1)
IsNext(received_block_number, block_number) ==
    received_block_number = wrapping_add(block_number, 1)

LastBlock_full(size) == size <= blk_size
\* lines 198, 223: size < self.blk_size
LastBlock(size) == size < blk_size

\* lines 189-206: recv_with_size() returned Data { block_num, data }
\* (r_log.stream: the payloads of the packets numbered one above block_number)
RecvData(received_block_number, data) ==
    /\ r_pc = "recv"
    /\ r_last' = Data(received_block_number, data)
    /\ LET stream == IF received_block_number = (r_block_number + 1) % Modulus
                     THEN WriteBytes(r_log.stream, data) ELSE r_log.stream
           polled == [r_log EXCEPT !.fails = 0, !.poll = 1 - @, !.stream = stream]
       IN  IF IsNext(received_block_number, r_block_number)
           THEN /\ r_block_number' = received_block_number
                /\ r_size' = Len(data)
                /\ IF AddFails(r_window)
                   THEN /\ r_pc' = "done"
                        /\ r_result' = ErrWindow
                        /\ r_log' = polled
                        /\ UNCHANGED r_window
                   ELSE /\ r_window' = Append(r_window, data)
                        /\ r_log' = [polled EXCEPT !.accepted = @ + 1, !.idle = 0]
                        /\ r_pc' = IF LastBlock(r_size') \/ is_full(r_window')
                                   THEN "empty" ELSE "recv"
                        /\ UNCHANGED r_result
           ELSE /\ r_log' = polled
                /\ UNCHANGED <<r_pc, r_block_number, r_size, r_window, r_result>>
    /\ UNCHANGED <<r_retry_cnt, r_file, r_wire>>

\* lines 210-217: recv_with_size() returned Err or a packet of another kind
RecvOther(pkt) ==
    /\ r_pc = "recv"
    /\ r_last' = pkt
    /\ r_retry_cnt' = r_retry_cnt + 1
    /\ IF RetriesExhausted(r_retry_cnt')
       THEN r_pc' = "done" /\ r_result' = ErrTimeout
       ELSE UNCHANGED <<r_pc, r_result>>
    /\ r_log' = [r_log EXCEPT !.fails = @ + 1, !.idle = @ + 1, !.poll = 1 - @]
    /\ UNCHANGED <<r_block_number, r_window, r_size, r_file, r_wire>>

RecvError_retry(code, msg) == RecvOther(Error(code, msg))
\* lines 207-209: recv_with_size() returned Error { code, msg }
RecvError(code, msg) ==
    /\ r_pc = "recv"
    /\ r_last' = Error(code, msg)
    /\ r_pc' = "done"
    /\ r_result' = ErrPeer(code, msg)
    /\ r_log' = [r_log EXCEPT !.fails = 0, !.poll = 1 - @]
    /\ UNCHANGED <<r_block_number, r_window, r_size, r_retry_cnt, r_file, r_wire>>

RecvEmpty_skip ==
    /\ r_pc = "empty"
    /\ r_pc' = "ack"
    /\ UNCHANGED <<r_block_number, r_window, r_size, r_retry_cnt, r_result, r_file, r_last,
                   r_wire, r_log>>

\* line 221: window.empty()?
RecvEmpty ==
    /\ r_pc = "empty"
    /\ r_file' = WriteElements(r_file, r_window)
    /\ r_window' = <<>>
    /\ r_pc' = "ack"
    /\ r_log' = [r_log EXCEPT !.written = @ + Len(r_window), !.flushes = @ + 1]
    /\ UNCHANGED <<r_block_number, r_size, r_retry_cnt, r_result, r_last, r_wire>>

\* line 221: window.empty() fails with an I/O error after writing k entries
RecvEmptyFail(k) ==
    /\ r_pc = "empty"
    /\ r_file' = WriteElements(r_file, SubSeq(r_window, 1, k))
    /\ r_pc' = "done"
    /\ r_result' = ErrIo
    /\ r_log' = [r_log EXCEPT !.written = @ + k]
    /\ UNCHANGED <<r_block_number, r_window, r_size, r_retry_cnt, r_last, r_wire>>

\* lines 222-225, then 184-185 of the next round
RecvSendAck ==
    /\ r_pc = "ack"
    /\ r_wire' = Ack(r_block_number)
    /\ r_log' = [r_log EXCEPT !.acks = @ + 1]
    /\ IF LastBlock(r_size)
       THEN r_pc' = "done" /\ r_result' = Ok /\ UNCHANGED r_retry_cnt
       ELSE r_pc' = "recv" /\ r_retry_cnt' = 0 /\ UNCHANGED r_result
    /\ UNCHANGED <<r_block_number, r_window, r_size, r_file, r_last>>

\* line 222: socket.send(Ack) fails
RecvSendAckFail ==
    /\ r_pc = "ack"
    /\ r_pc' = "done"
    /\ r_result' = ErrIo
    /\ UNCHANGED <<r_block_number, r_window, r_size, r_retry_cnt, r_file, r_last, r_wire,
                   r_log>>

\* ------------------------------------------------------------- Worker::receive
\* "Received {file} from {addr}" and "Error while cleaning {file}"
Received == [tag |-> "received", code |-> 0, msg |-> ""]
CleanFailed == [tag |-> "clean", code |-> 0, msg |-> ""]

ReceiveFailed_keep(removed) ==
    /\ r_printed' = <<r_result>>
    /\ UNCHANGED <<r_exists, r_cleanup>>

\* lines 120-125, the error arm: the error is printed, fs::remove_file is
\* called, and its failure is printed after the error
ReceiveFailed(removed) ==
    /\ r_cleanup' = IF removed THEN "removed" ELSE "failed"
    /\ r_exists' = IF removed THEN FALSE ELSE r_exists
    /\ r_printed' = IF removed THEN <<r_result>> ELSE <<r_result, CleanFailed>>

\* lines 112-126: match handle_receive(), once receive_file has returned
ReceiveMatch ==
    /\ r_pc = "done"
    /\ r_printed = <<>>
    /\ IF r_result = Ok
       THEN /\ r_printed' = <<Received>>
            /\ UNCHANGED <<r_exists, r_cleanup>>
       ELSE \E removed \in BOOLEAN : ReceiveFailed(removed)
    /\ UNCHANGED <<cfgvars, svars, rvars, netvars>>

\* ------------------------------------------------------------- initial state
\* Worker::new, then lines 133-134 and 180-181, 184-185
InitWorkers ==
    /\ s_block_number = 1
    /\ s_window = <<>>
    /\ s_fpos = 0
    /\ s_filled = TRUE
    /\ s_retry_cnt = 0
    /\ s_expired = FALSE
    /\ s_result = Running
    /\ s_last = NoPacket
    /\ s_wire = <<>>
    /\ s_log = [read |-> 0, windows |-> 0, acked |-> 0, removed |-> 0, fails |-> 0,
                idle |-> 0, late |-> FALSE]
    /\ r_block_number = 0
    /\ r_window = <<>>
    /\ r_size = 0
    /\ r_retry_cnt = 0
    /\ r_result = Running
    /\ r_file = <<>>
    /\ r_last = NoPacket
    /\ r_wire = NoPacket
    /\ r_log = [accepted |-> 0, written |-> 0, flushes |-> 0, acks |-> 0, fails |-> 0,
                idle |-> 0, poll |-> 0, stream |-> <<>>]
    /\ to_receiver = <<>>
    /\ to_sender = <<>>
    /\ net = [lost |-> 0, dup |-> 0, swap |-> 0]
    /\ r_cleanup = "none"
    /\ r_printed = <<>>

\* ------------------------------------------------------------- one Worker, any peer
ErrorCodes == {1, 2}
ErrorMsgs == {"m"}
PeerBytes == {7, 8}

\* the block numbers an arbitrary peer uses, around block number `base`
PeerNumbers(base, width) ==
    {wrapping_add(base, d + Modulus) : d \in (0 - MaxAhead)..(width + MaxAhead)}

\* payloads of at most blk_size bytes (recv_with_size(self.blk_size))
PeerPayloads == {[i \in 1..len |-> b] : len \in 0..blk_size, b \in PeerBytes}

Init ==
    /\ role \in {"send", "receive"}
    /\ windowsize \in 1..MaxWindowSize
    /\ blk_size \in 1..MaxBlkSize
    /\ file_len \in IF role = "send" THEN 0..MaxFileLen ELSE {0}
    /\ s_pc = IF role = "send" THEN "fill" ELSE "off"
    /\ r_pc = IF role = "receive" THEN "recv" ELSE "off"
    /\ r_exists = (role = "receive")
    /\ InitWorkers

OnlySender == UNCHANGED <<cfgvars, wvars, rvars, netvars>>
OnlyReceiver == UNCHANGED <<cfgvars, wvars, svars, netvars>>

\* an arbitrary peer sends at most MaxPeerAcks Acks that send_file accepts
PeerAck(n) ==
    /\ AckInWindow(wrapping_sub(n, s_block_number)) => s_log.acked < MaxPeerAcks
    /\ SendRecvAck(n)

\* an arbitrary peer offers at most MaxPeerBlocks full blocks that receive_file accepts
PeerData(n, data) ==
    /\ (IsNext(n, r_block_number) /\ Len(data) = blk_size) => r_log.accepted < MaxPeerBlocks
    /\ RecvData(n, data)

Next ==
    \/ SendFill /\ OnlySender
    \/ SendFillFail /\ OnlySender
    \/ SendWindow /\ OnlySender
    \/ \E k \in 0..(2 * Len(s_window) - 1) : SendWindowFail(k) /\ OnlySender
    \/ SendNoResend /\ OnlySender
    \/ TimePasses /\ OnlySender
    \/ \E n \in PeerNumbers(s_block_number, windowsize) : PeerAck(n) /\ OnlySender
    \/ \E code \in ErrorCodes, msg \in ErrorMsgs : SendRecvError(code, msg) /\ OnlySender
    \/ SendRecvOther(NoPacket) /\ OnlySender
    \/ SendRecvOther(Data(1, <<>>)) /\ OnlySender
    \/ \E n \in PeerNumbers(r_block_number, 1), data \in PeerPayloads :
           PeerData(n, data) /\ OnlyReceiver
    \/ \E code \in ErrorCodes, msg \in ErrorMsgs : RecvError(code, msg) /\ OnlyReceiver
    \/ RecvOther(NoPacket) /\ OnlyReceiver
    \/ RecvOther(Ack(1)) /\ OnlyReceiver
    \/ RecvEmpty /\ OnlyReceiver
    \/ \E k \in 0..(Len(r_window) - 1) : RecvEmptyFail(k) /\ OnlyReceiver
    \/ RecvSendAck /\ OnlyReceiver
    \/ RecvSendAckFail /\ OnlyReceiver
    \/ ReceiveMatch

Spec == Init /\ [][Next]_vars

\* The thread of a Worker keeps running: a step that can be taken is taken.
SpecFair == Spec /\ WF_vars(Next)

\* ------------------------------------------------------------- two Workers, a network
\* socket.recv() ends without a packet only when none can still arrive: nothing
\* is in flight to this Worker, and the other Worker has returned or is itself
\* waiting with nothing in flight to it.
SenderStarved ==
    /\ to_sender = <<>>
    /\ r_pc = "done" \/ (r_pc = "recv" /\ to_receiver = <<>>)
ReceiverStarved ==
    /\ to_receiver = <<>>
    /\ s_pc = "done" \/ (s_pc = "recv" /\ to_sender = <<>>)

InitBoth ==
    /\ role = "both"
    /\ windowsize \in 1..MaxWindowSize
    /\ blk_size \in 1..MaxBlkSize
    /\ file_len \in 0..MaxFileLen
    /\ s_pc = "fill"
    /\ r_pc = "recv"
    /\ r_exists = TRUE
    /\ InitWorkers

NetSendFill == SendFill /\ UNCHANGED <<cfgvars, wvars, rvars, netvars>>

\* the window is transmitted on first entry, and again after a poll that timed out
NetSendWindow ==
    /\ SendWindow
    /\ to_receiver' = to_receiver \o s_wire'
    /\ UNCHANGED <<cfgvars, wvars, rvars, to_sender, net>>

\* the timeout elapses only while recv() waits in vain
NetTimePasses ==
    /\ s_pc = "time"
    /\ s_last.kind = "None"
    /\ TimePasses
    /\ UNCHANGED <<cfgvars, wvars, rvars, netvars>>

NetSendNoResend == SendNoResend /\ UNCHANGED <<cfgvars, wvars, rvars, netvars>>

NetSendRecvAck ==
    /\ to_sender # <<>>
    /\ Head(to_sender).kind = "Ack"
    /\ SendRecvAck(Head(to_sender).block_num)
    /\ to_sender' = Tail(to_sender)
    /\ UNCHANGED <<cfgvars, wvars, rvars, to_receiver, net>>

NetSendTimeout ==
    /\ SenderStarved
    /\ SendRecvOther(NoPacket)
    /\ UNCHANGED <<cfgvars, wvars, rvars, netvars>>

NetRecvData ==
    /\ to_receiver # <<>>
    /\ Head(to_receiver).kind = "Data"
    /\ RecvData(Head(to_receiver).block_num, Head(to_receiver).data)
    /\ to_receiver' = Tail(to_receiver)
    /\ UNCHANGED <<cfgvars, wvars, svars, to_sender, net>>

NetRecvTimeout ==
    /\ ReceiverStarved
    /\ RecvOther(NoPacket)
    /\ UNCHANGED <<cfgvars, wvars, svars, netvars>>

NetRecvEmpty == RecvEmpty /\ UNCHANGED <<cfgvars, wvars, svars, netvars>>

NetRecvSendAck ==
    /\ RecvSendAck
    /\ to_sender' = Append(to_sender, Ack(r_block_number))
    /\ UNCHANGED <<cfgvars, wvars, svars, to_receiver, net>>

\* the network may still interfere
MayFault == net.lost + net.dup + net.swap < MaxFaults

DropAt(q, i) == SubSeq(q, 1, i - 1) \o SubSeq(q, i + 1, Len(q))
DupAt(q, i) == SubSeq(q, 1, i) \o SubSeq(q, i, Len(q))
SwapAt(q, i) == [q EXCEPT ![i] = q[i + 1], ![i + 1] = q[i]]

\* the network loses one packet
NetLose ==
    /\ MayFault
    /\ net' = [net EXCEPT !.lost = @ + 1]
    /\ \/ \E i \in 1..Len(to_receiver) :
              to_receiver' = DropAt(to_receiver, i) /\ UNCHANGED to_sender
       \/ \E i \in 1..Len(to_sender) :
              to_sender' = DropAt(to_sender, i) /\ UNCHANGED to_receiver
    /\ UNCHANGED <<cfgvars, wvars, svars, rvars>>

\* the network delivers one packet twice
NetDup ==
    /\ MayFault
    /\ net' = [net EXCEPT !.dup = @ + 1]
    /\ \/ \E i \in 1..Len(to_receiver) :
              to_receiver' = DupAt(to_receiver, i) /\ UNCHANGED to_sender
       \/ \E i \in 1..Len(to_sender) :
              to_sender' = DupAt(to_sender, i) /\ UNCHANGED to_receiver
    /\ UNCHANGED <<cfgvars, wvars, svars, rvars>>

\* the network delivers two packets in the other order
NetSwap ==
    /\ MayFault
    /\ net' = [net EXCEPT !.swap = @ + 1]
    /\ \/ \E i \in 1..(Len(to_receiver) - 1) :
              /\ to_receiver[i] # to_receiver[i + 1]
              /\ to_receiver' = SwapAt(to_receiver, i) /\ UNCHANGED to_sender
       \/ \E i \in 1..(Len(to_sender) - 1) :
              /\ to_sender[i] # to_sender[i + 1]
              /\ to_sender' = SwapAt(to_sender, i) /\ UNCHANGED to_receiver
    /\ UNCHANGED <<cfgvars, wvars, svars, rvars>>

NextWorkers ==
    \/ NetSendFill
    \/ NetSendWindow
    \/ NetSendNoResend
    \/ NetTimePasses
    \/ NetSendRecvAck
    \/ NetSendTimeout
    \/ NetRecvData
    \/ NetRecvTimeout
    \/ NetRecvEmpty
    \/ NetRecvSendAck

NextBoth == NextWorkers \/ NetLose \/ NetDup \/ NetSwap

SpecBoth == InitBoth /\ [][NextBoth]_vars

\* ------------------------------------------------------------- a file past block 65535
\* Two Workers over a network that loses nothing, with one-byte blocks and a
\* source file of more than 65536 blocks, so that the block numbers wrap.
InitWrap ==
    /\ role = "both"
    /\ windowsize = MaxWindowSize
    /\ blk_size = 1
    /\ file_len = Modulus + 1
    /\ s_pc = "fill"
    /\ r_pc = "recv"
    /\ r_exists = TRUE
    /\ InitWorkers

NextWrap ==
    \/ NetSendFill
    \/ NetSendWindow
    \/ NetSendRecvAck
    \/ NetRecvData
    \/ NetRecvEmpty
    \/ NetRecvSendAck

SpecWrap == InitWrap /\ [][NextWrap]_vars

\* ------------------------------------------------------------- properties
\* a step in which send_file polled the socket and got `kind`
SendPolled(kind) == s_pc = "recv" /\ s_pc' # "recv" /\ s_last'.kind = kind
\* a step in which receive_file polled the socket and got `kind`
RecvPolled(kind) == r_log'.poll # r_log.poll /\ r_last'.kind = kind
\* (n - base) mod 65536 of the Ack just polled
AckDiff == (s_last'.block_num - s_block_number + Modulus) % Modulus

\* C1: every Ack(n) polled by send_file with (n - base) mod 65536 in
\* [0, windowsize] sets the base to (n + 1) mod 65536, removes exactly diff + 1
\* entries from the front of the buffer, and does not abort the transfer.
C1_ValidAckAdvances ==
    [][(SendPolled("Ack") /\ AckDiff <= windowsize) =>
           /\ s_block_number' = (s_last'.block_num + 1) % Modulus
           /\ Len(s_window') = Len(s_window) - (AckDiff + 1)
           /\ s_window' = SubSeq(s_window, AckDiff + 2, Len(s_window))
           /\ s_result' \in {Running, Ok}]_vars

\* C2: every Ack(n) polled by send_file with (n - base) mod 65536 > windowsize
\* leaves the base, the buffer and the retry counter as they are and the
\* transfer waiting; so does a repetition of the Ack accepted last.
C2_StaleAckIgnored ==
    [][/\ (SendPolled("Ack") /\ AckDiff > windowsize) =>
              /\ s_block_number' = s_block_number
              /\ s_window' = s_window
              /\ s_retry_cnt' = s_retry_cnt
              /\ s_log'.removed = s_log.removed
              /\ s_fpos' = s_fpos
              /\ s_pc' = "time"
              /\ s_result' = Running
       /\ (/\ SendPolled("Ack")
           /\ s_log.acked > 0
           /\ s_last'.block_num = (s_block_number - 1 + Modulus) % Modulus) =>
              /\ s_block_number' = s_block_number
              /\ s_window' = s_window
              /\ s_log'.removed = s_log.removed]_vars

\* C2 witness: send_file has accepted an Ack, was then handed the same Ack
\* again and is back at the timeout check of the same round
C2_Witness ==
    /\ s_pc = "time"
    /\ ~s_expired
    /\ s_log.acked > 0
    /\ s_log.fails = 0
    /\ s_last = Ack((s_block_number - 1 + Modulus) % Modulus)
    /\ s_retry_cnt > 0

\* C3: receive_file accepts a polled Data packet (advances block_number to its
\* number, appends its payload) exactly if its number is (block_number + 1)
\* mod 65536; any other Data packet changes neither block_number, the buffer,
\* the file nor the retry counter, and sends no Ack.
C3_InOrderAcceptance ==
    [][RecvPolled("Data") =>
           IF r_last'.block_num = (r_block_number + 1) % Modulus
           THEN /\ r_block_number' = r_last'.block_num
                /\ r_window' = Append(r_window, r_last'.data)
                /\ r_log'.accepted = r_log.accepted + 1
           ELSE /\ r_block_number' = r_block_number
                /\ r_window' = r_window
                /\ r_file' = r_file
                /\ r_retry_cnt' = r_retry_cnt
                /\ r_log'.accepted = r_log.accepted
                /\ r_log'.acks = r_log.acks
                /\ r_wire' = r_wire
                /\ r_pc' = "recv"
                /\ r_result' = Running]_vars

\* C3 witness: receive_file holds an accepted block and has just ignored a
\* Data packet whose number is not the expected one
C3_Witness ==
    /\ r_pc = "recv"
    /\ r_window # <<>>
    /\ r_last.kind = "Data"
    /\ r_last.block_num # r_block_number
    /\ r_log.accepted > 0

\* C5: on both paths, once 6 polls in a row have failed the transfer has ended
\* with the timeout failure.
C5_RetryBudget ==
    /\ s_log.fails >= 6 => (s_pc = "done" /\ s_result = ErrTimeout)
    /\ r_log.fails >= 6 => (r_pc = "done" /\ r_result = ErrTimeout)
    /\ s_result = ErrTimeout => s_result.code = 6
    /\ r_result = ErrTimeout => r_result.code = 6

\* C5 witness: receive_file, holding an accepted block, has given up after six
\* failed polls in a row
C5_Witness ==
    /\ r_pc = "done"
    /\ r_result = ErrTimeout
    /\ r_log.fails = 6
    /\ r_window # <<>>

\* the network has lost, duplicated and reordered nothing
NoFault == net = [lost |-> 0, dup |-> 0, swap |-> 0]
\* the network has lost at most one packet and done nothing else
OneLoss == net.lost <= 1 /\ net.dup = 0 /\ net.swap = 0
BothDone == s_pc = "done" /\ r_pc = "done"

\* C4: when the network loses at most one packet and delivers everything
\* else, both paths end with success and the file is fully transferred.
C4_LossRecovered ==
    (OneLoss /\ BothDone) =>
        (s_result = Ok /\ r_result = Ok /\ r_file = SourceFile)

\* Without a loss both paths do end with success and the whole file.
LossFreeTransfer ==
    (NoFault /\ BothDone) =>
        (s_result = Ok /\ r_result = Ok /\ r_file = SourceFile)

\* C6: every run of send_file and of receive_file eventually ends, whatever
\* the peer sends.
C6_Terminates == <>(s_pc \in {"done", "off"} /\ r_pc \in {"done", "off"})

\* C7: send_file has returned success exactly if the latest fill() reported
\* the end of the file and the buffer is empty; then every entry read from
\* the file has been removed after an Ack, and send_file does not go on.
C7_SendCompletion ==
    /\ s_result = Ok <=> (~s_filled /\ s_window = <<>>)
    /\ s_result = Ok =>
           /\ s_pc = "done"
           /\ s_fpos = file_len
           /\ s_log.removed = s_log.read
    /\ Len(s_window) = s_log.read - s_log.removed

\* C7 witness: send_file has returned success after more than one window
C7_Witness ==
    /\ s_result = Ok
    /\ s_log.acked >= 2
    /\ s_log.read >= 3

\* the block number of the file block that `data` is, counted from the bytes
\* it holds (the byte at offset i of the source has the value i + 1)
BlockOf(data) ==
    IF data = <<>> THEN (file_len \div blk_size + 1) % Modulus
    ELSE ((data[1] - 1) \div blk_size + 1) % Modulus

\* C8: block numbers wrap like any other consecutive pair: every Data packet
\* carries the number of its file block mod 65536, a transmitted window is
\* numbered consecutively mod 65536 from the base, the base is one more than
\* the entries removed so far mod 65536 and names the first held entry,
\* receive_file's block_number is the count of accepted blocks mod 65536, the
\* file written so far is the start of the source, and nothing fails.
C8_Wraparound ==
    /\ \A i \in 1..Len(s_wire) :
           /\ s_wire[i].block_num = BlockOf(s_wire[i].data)
           /\ s_wire[i].block_num = (s_wire[1].block_num + (i - 1) \div 2) % Modulus
    /\ \A i \in 1..Len(to_receiver) :
           to_receiver[i].block_num = BlockOf(to_receiver[i].data)
    /\ s_block_number = (s_log.removed + 1) % Modulus
    /\ s_window # <<>> => BlockOf(s_window[1]) = s_block_number
    /\ r_block_number = r_log.accepted % Modulus
    /\ r_window # <<>> => BlockOf(r_window[Len(r_window)]) = r_block_number
    /\ \E n \in {Min(r_log.accepted - Len(r_window), file_len)} :
           r_file = IF n = 0 THEN <<>> ELSE <<<<1, n>>>>
    /\ s_result \in {Running, Ok}
    /\ r_result \in {Running, Ok}
    /\ BothDone => (s_result = Ok /\ r_result = Ok /\ r_file = SourceFile)

\* C8 witness: the window 65535, 0 was transmitted, receive_file accepted
\* block 0 after block 65535, and send_file accepted Ack(0) with offset 1
C8_Witness ==
    /\ Len(s_wire) = 4
    /\ s_wire[1].block_num = 65535
    /\ s_wire[3].block_num = 0
    /\ s_last = Ack(0)
    /\ s_block_number = 1
    /\ s_log.removed = 65536
    /\ r_log.accepted >= 65536
    /\ r_block_number = 0

\* C9 as stated: a file of exactly windowsize * blk_size bytes takes one
\* window transmission and one Ack.
C9_OneWindowOneAck ==
    (NoFault /\ BothDone /\ file_len = windowsize * blk_size) =>
        /\ s_result = Ok /\ r_result = Ok
        /\ s_log.windows = 1
        /\ s_log.acked = 1
        /\ r_log.acks = 1

\* C9 amended: over a network that loses nothing, a file of exactly
\* windowsize * blk_size bytes takes two window transmissions and two Acks:
\* windowsize full blocks, then one zero-length block.
C9_TwoWindowsTwoAcks ==
    (NoFault /\ BothDone /\ file_len = windowsize * blk_size) =>
        /\ s_result = Ok /\ r_result = Ok
        /\ r_file = SourceFile
        /\ s_log.windows = 2
        /\ s_log.read = windowsize + 1
        /\ s_log.acked = 2
        /\ r_log.acks = 2
        /\ r_log.accepted = windowsize + 1
        /\ s_wire = <<Data((windowsize + 1) % Modulus, <<>>),
                      Data((windowsize + 1) % Modulus, <<>>)>>
        /\ r_wire = Ack((windowsize + 1) % Modulus)

\* C9 witness: such a transfer, of more than one block, has ended
C9_Witness ==
    /\ NoFault
    /\ BothDone
    /\ windowsize >= 2
    /\ file_len = windowsize * blk_size
    /\ s_result = Ok
    /\ r_result = Ok

\* C10: on both paths a polled Error packet ends the transfer at once with
\* the peer's code and message, whatever the retry counter holds; nothing is
\* sent, flushed or acknowledged in that step, and nothing happens afterwards.
C10_PeerError ==
    [][/\ SendPolled("Error") =>
              /\ s_pc' = "done"
              /\ s_result' = [tag |-> "peer", code |-> s_last'.code, msg |-> s_last'.msg]
              /\ s_wire' = s_wire
              /\ s_log'.windows = s_log.windows
              /\ s_retry_cnt' = s_retry_cnt
              /\ s_window' = s_window
       /\ RecvPolled("Error") =>
              /\ r_pc' = "done"
              /\ r_result' = [tag |-> "peer", code |-> r_last'.code, msg |-> r_last'.msg]
              /\ r_wire' = r_wire
              /\ r_log'.acks = r_log.acks
              /\ r_retry_cnt' = r_retry_cnt
              /\ r_window' = r_window
              /\ r_file' = r_file
       /\ s_pc = "done" => UNCHANGED svars
       /\ r_pc = "done" => UNCHANGED rvars]_vars

\* C10 witness: receive_file was one failed poll from the retry budget and
\* held an unflushed block when the peer's Error ended it
C10_Witness ==
    /\ r_pc = "done"
    /\ r_result.tag = "peer"
    /\ r_last.kind = "Error"
    /\ r_result.code = r_last.code
    /\ r_retry_cnt = MAX_RETRIES - 1
    /\ r_window # <<>>
    /\ r_file = <<>>

\* C11: once receive() has handled a failed receive_file, fs::remove_file was
\* called: the file is gone unless the removal failed; the error is what was
\* printed first, a failed removal is printed after it; after a successful
\* receive_file the file was not removed.  Before that nothing is removed.
C11_ReceiveCleanup ==
    /\ (r_printed # <<>> /\ r_result # Ok) =>
           /\ r_printed[1] = r_result
           /\ r_cleanup \in {"removed", "failed"}
           /\ r_cleanup = "removed" => (~r_exists /\ r_printed = <<r_result>>)
           /\ r_cleanup = "failed" => (r_exists /\ r_printed = <<r_result, CleanFailed>>)
    /\ (r_printed # <<>> /\ r_result = Ok) =>
           (r_exists /\ r_cleanup = "none" /\ r_printed = <<Received>>)
    /\ (r_printed = <<>> /\ role # "send") => (r_exists /\ r_cleanup = "none")

\* C11 witness: receive_file had written a window when it timed out, and the
\* file was then removed
C11_Witness ==
    /\ r_result = ErrTimeout
    /\ r_file # <<>>
    /\ r_printed = <<ErrTimeout>>
    /\ r_cleanup = "removed"
    /\ ~r_exists

\* C12: send_file never ends with the buffer's range error, whatever the peer
\* sends: remove(n) is never called with n above the number of entries held.
C12_NoRangeError == s_result # ErrWindow

\* C13: a transfer times out only after MAX_RETRIES failed polls with no
\* accepted Ack (send_file) or accepted Data packet (receive_file) between
\* them: idle counts the failed polls since the last accepted packet.
C13_ConsecutiveFailures ==
    /\ s_result = ErrTimeout => s_log.idle >= MAX_RETRIES
    /\ r_result = ErrTimeout => r_log.idle >= MAX_RETRIES

\* C14: receive_file sends an Ack only after window.empty() has written the
\* whole window: every accepted block is then in the file and the buffer is
\* empty; the Ack carries the number of the Data packet accepted last; it is
\* the one Ack of that window.  While packets are awaited or a window is being
\* written every written window has its Ack, and once empty() has failed no
\* Ack follows.  A poll (accepted, ignored or failed) never sends an Ack.
C14_AckSent ==
    r_log'.acks # r_log.acks \/ r_wire' # r_wire =>
        /\ r_pc = "ack"
        /\ r_window = <<>>
        /\ r_log.written = r_log.accepted
        /\ r_last.kind = "Data" /\ r_last.block_num = r_block_number
        /\ r_wire' = Ack(r_block_number)
        /\ r_log.flushes = r_log.acks + 1
        /\ r_log'.acks = r_log.acks + 1
        /\ r_log'.poll = r_log.poll

C14_OneAckPerWindow ==
    /\ r_log.acks <= r_log.flushes /\ r_log.flushes <= r_log.acks + 1
    /\ r_pc \in {"recv", "empty"} => r_log.acks = r_log.flushes
    /\ r_result = Ok => r_log.acks = r_log.flushes
    /\ r_pc = "ack" => r_log.flushes = r_log.acks + 1

C14_FlushBeforeAck == [][C14_AckSent]_vars /\ []C14_OneAckPerWindow

\* C14 witness: two windows, three blocks in all, were written and acknowledged
C14_Witness ==
    /\ r_log.acks = 2
    /\ r_log.accepted = 3
    /\ r_log.written = 3
    /\ r_wire = Ack(3)
    /\ Len(r_file) > 0

\* C15: the destination file holds exactly the payloads of the accepted Data
\* packets (those numbered one above the expected number when polled), each
\* once, in the order of acceptance: the file followed by the entries still to
\* be written is that stream of payloads, also when empty() failed part-way.
\* A Data packet numbered as an already accepted block changes neither the
\* buffer nor the file.
C15_FileIsAcceptedStream ==
    LET k == r_log.written - (r_log.accepted - Len(r_window))
    IN  /\ k \in 0..Len(r_window)
        /\ k > 0 => r_result = ErrIo
        /\ WriteElements(r_file, SubSeq(r_window, k + 1, Len(r_window))) = r_log.stream

C15_DuplicateIgnored ==
    (RecvPolled("Data") /\ r_last'.block_num \in 1..r_block_number) =>
        /\ r_window' = r_window
        /\ r_file' = r_file
        /\ r_log'.stream = r_log.stream

C15_ContentIntegrity == []C15_FileIsAcceptedStream /\ [][C15_DuplicateIgnored]_vars

\* C15 witness: after a written window, a block was accepted and then a packet
\* with its number and another payload was polled and left out
C15_Witness ==
    /\ r_pc = "recv"
    /\ r_file # <<>>
    /\ Len(r_window) = 1
    /\ r_last.kind = "Data"
    /\ r_last.block_num = r_block_number
    /\ r_last.data # r_window[1]

\* C16: whenever send_file is about to transmit or awaits a packet, its base
\* is 1 + the number of entries removed so far (mod 65536) and the first
\* buffer entry is the block of the file with that number; the expected
\* number of receive_file is always the number of accepted blocks (mod 65536).
C16_BaseNumbers ==
    /\ s_pc \in {"time", "recv"} =>
           /\ s_block_number = (1 + s_log.removed) % Modulus
           /\ s_window # <<>>
           /\ s_window[1] = ReadChunk(Min(s_log.removed * blk_size, file_len), blk_size)
    /\ r_block_number = r_log.accepted % Modulus

\* C16 witness: send_file awaits a packet after an Ack for the first of two
\* entries and a refill
C16_Witness ==
    /\ s_pc = "recv"
    /\ s_log.removed = 1
    /\ s_log.acked = 1
    /\ s_block_number = 2
    /\ Len(s_window) = 2

\* a step in which send_file called send_window (line 144)
Transmitted == s_pc = "time" /\ s_expired /\ s_pc' # "time"

\* C17: every transmission puts the held entries on the socket in buffer
\* order, each entry twice in a row, entry i (from 0) numbered
\* (base + i) mod 65536, so no packet of an earlier entry follows a packet of
\* a later one; a transmission cut short by a socket failure is a prefix of
\* that; transmitting changes neither the buffer nor the base.
C17_InOrder ==
    Transmitted =>
        /\ Len(s_wire') <= 2 * Len(s_window)
        /\ s_pc' = "recv" => Len(s_wire') = 2 * Len(s_window)
        /\ \A j \in 1..Len(s_wire') :
               LET i == (j - 1) \div 2
               IN  /\ s_wire'[j].kind = "Data"
                   /\ s_wire'[j].block_num = (s_block_number + i) % Modulus
                   /\ s_wire'[j].data = s_window[i + 1]
        /\ s_window' = s_window
        /\ s_block_number' = s_block_number

C17_WindowTransmission == [][C17_InOrder]_vars

\* C17 witness: after an Ack for the first of two entries and a refill, the
\* window of blocks 2 and 3 was transmitted
C17_Witness ==
    /\ s_pc = "recv"
    /\ s_log.acked = 1
    /\ s_log.removed = 1
    /\ s_log.windows = 2
    /\ Len(s_window) = 2
    /\ Len(s_wire) = 4
    /\ s_wire[1].block_num = 2
    /\ s_wire[4].block_num = 3

\* C18: the buffer of receive_file never holds more than windowsize entries
\* and add() never fails on a full buffer; while packets are awaited the
\* buffer is not full and holds only whole blocks; the window is written out
\* exactly when the buffer has reached windowsize entries or the block
\* accepted last is shorter than blk_size.
C18_ReceiveBufferBound ==
    /\ Len(r_window) <= windowsize
    /\ r_result # ErrWindow
    /\ r_pc = "recv" =>
           /\ Len(r_window) < windowsize
           /\ \A i \in 1..Len(r_window) : Len(r_window[i]) = blk_size
    /\ r_pc = "empty" =>
           /\ r_window # <<>>
           /\ Len(r_window) = windowsize \/ Len(r_window[Len(r_window)]) < blk_size
           /\ \A i \in 1..(Len(r_window) - 1) : Len(r_window[i]) = blk_size
    /\ r_pc = "ack" => r_window = <<>>

\* C18 witness: a window of windowsize = 2 whole blocks is about to be written
C18_Witness ==
    /\ r_pc = "empty"
    /\ windowsize = 2
    /\ Len(r_window) = 2
    /\ Len(r_window[2]) = blk_size
    /\ r_log.accepted = 2

\* C19: fill() is followed by a test of line 143 that holds, and send_file
\* polls only with the whole current window transmitted since; the window is
\* put on the socket only in a step in which the timeout has elapsed; with
\* the timeout elapsed send_file does not get to poll without transmitting
\* the whole window, whatever retry_cnt is, and transmitting leaves retry_cnt
\* as it is.
C19_Transmission ==
    /\ (s_pc = "fill" /\ s_pc' = "time") => s_expired'
    /\ (s_wire' # s_wire \/ s_log'.windows # s_log.windows \/ s_log'.late # s_log.late)
           => Transmitted
    /\ Transmitted =>
           /\ s_retry_cnt' = s_retry_cnt
           /\ s_pc' = "recv" =>
                  /\ s_wire' = send_window(s_window, s_block_number)
                  /\ s_log'.windows = Bump(s_log.windows)
                  /\ ~s_expired'

C19_SentBeforePoll ==
    s_pc = "recv" =>
        /\ s_log.windows >= 1
        /\ s_wire = send_window(s_window, s_block_number)

C19_SendBeforeWait == [][C19_Transmission]_vars /\ []C19_SentBeforePoll

\* C19 witness: after five failed polls the timeout had elapsed and the window
\* was transmitted again; send_file polls once more with retry_cnt still 5
C19_Witness ==
    /\ s_pc = "recv"
    /\ s_log.late
    /\ s_retry_cnt = MAX_RETRIES - 1
    /\ s_log.windows >= 2
    /\ ~s_expired

\* C20: over a network that loses, repeats and swaps packets, whenever
\* send_file or receive_file has ended with success the destination file
\* holds exactly the bytes of the source file; when send_file has ended with
\* success, receive_file has written the last block and sent its Ack.
C20_EndToEnd ==
    /\ r_result = Ok => (r_file = SourceFile /\ r_window = <<>>)
    /\ s_result = Ok => (r_file = SourceFile /\ r_window = <<>> /\ r_result = Ok)

\* C20 witness: both ends report success for a file of two windows although
\* the network lost, repeated or swapped two packets
C20_Witness ==
    /\ s_result = Ok
    /\ r_result = Ok
    /\ net.lost + net.dup + net.swap = MaxFaults
    /\ r_log.acks >= 2
    /\ file_len = MaxFileLen
    /\ r_file = SourceFile

====
